---- MODULE Spec2Model ----
(***************************************************************************)
(* The two mock-data scripts of the repository.                            *)
(*                                                                         *)
(* scripts/clickhouse_data_generator.py: main, ClickHouseDataGenerator.run *)
(* with clear_data, generate_spans, generate_logs, generate_incidents and  *)
(* the writers _insert_spans / _insert_logs (direct bulk insert, or REST   *)
(* ingestion with a per-sub-batch fallback to direct insertion).           *)
(*                                                                         *)
(* scripts/data_generator.py: main and DataGenerator.run with connect,     *)
(* ensure_tables, clear_all_data, the create_* phases and disconnect.      *)
(*                                                                         *)
(* Spec runs either script, once.  SpecRows applies the row builders of    *)
(* the first script (a trace, a log row, an incident) to every draw of     *)
(* their random choices, and then builds the JSON objects the REST path    *)
(* posts for the rows.                                                     *)
(*                                                                         *)
(* The flush thresholds are scaled down so that every case of the          *)
(* batching (threshold reached, overshoot by a whole trace, partial last   *)
(* batch, several sub-batches with a short last one) is reached with a     *)
(* handful of rows:                                                        *)
(*     batch_size       stands for 5000 (generate_logs, line 84)           *)
(*     span_batch_size  stands for 5000 (generate_spans, line 212)         *)
(*     api_batch_size   stands for 1000 (_insert_*_via_api, 157 and 315)   *)
(* Every property below is stated in terms of these names, never of their  *)
(* values.                                                                 *)
(***************************************************************************)
EXTENDS Integers, Sequences, FiniteSets, TLC

\* ------------------------------------------------------------------ bounds
MaxTeams == 2
MaxHours == 3
MaxTraces == 4
MaxLogs == 12
IncidentsPerTeam == 4

batch_size == 5
span_batch_size == 6
api_batch_size == 3

\* random.randint(2, 4): the number of child spans of a trace
MinChildren == 2
MaxChildren == 4

\* ------------------------------------------------------------- the inputs
None == "None"
AuthTokens == {None, "", "jwt"}
TeamIdValues == {"team-a", "team-b"}

RECURSIVE SeqsUpTo(_, _)
SeqsUpTo(S, n) ==
  IF n = 0 THEN {<<>>}
  ELSE LET shorter == SeqsUpTo(S, n - 1)
       IN  shorter \cup {Append(s, x) : s \in {q \in shorter : Len(q) = n - 1}, x \in S}

\* The lists set_team_ids is given, up to renaming of the ids: a list may repeat an id.
TeamIdLists == {s \in SeqsUpTo(TeamIdValues, MaxTeams) : Len(s) > 0 => s[1] = "team-a"}

VARIABLES
  auth_token,       \* self.auth_token
  use_api,          \* self.use_api
  team_ids,         \* self.team_ids
  hours_back,       \* run(hours_back), passed to generate_spans and generate_logs
  traces_per_hour,  \* generate_spans(traces_per_hour)
  logs_per_hour,    \* generate_logs(logs_per_hour)
  pc,               \* "no_client", "constructed", "run", "clear", "spans", "logs",
                    \* "incidents", "done", "raised"; "off": the script is not run
  t,                \* 1-based position of the `for team_id in self.team_ids` loop
  iter,             \* iterations of the two inner loops done for team t
  span_batch,       \* generate_spans: span_batch
  rows,             \* generate_logs: rows
  total_traces,     \* generate_spans: total_traces
  total_spans,      \* generate_spans: total_spans
  total_inserted,   \* generate_logs: total_inserted
  generated,        \* rows built so far by the running generate_* call
  flushed,          \* the batches the running generate_* call passed to the writer
  wpc,              \* writer: "idle", "call", "pending", "rest_attempted", "fallback", "fatal"
  kind,             \* writer: "spans" or "logs" (which _insert_* is running)
  ret,              \* where the writer was called from: "loop" or "team_end"
  w_rows,           \* writer: the parameter rows
  payload,          \* writer: logs_payload / spans_payload
  i,                \* writer: the loop index i of range(0, len(payload), batch_size)
  posts,            \* requests.post calls of the running/last writer call
  inserts,          \* client.insert calls of the running/last writer call
  \* clickhouse_data_generator.py: main and run
  client,           \* self.client: "None", "open" or "closed"
  clear,            \* args.clear, the parameter clear of run
  truncated,        \* clear_data: the tables whose TRUNCATE was sent, in order
  clear_failed,     \* clear_data: the tables whose TRUNCATE raised (nothing of this
                    \* is kept once clear_data has returned)
  \* data_generator.py
  mpc,              \* position in main / DataGenerator.run; "off": the script is not run
  clear_existing,   \* args.clear, the parameter clear_existing of run
  held_rows,        \* the tables hold rows of an earlier run when the script starts
  connection,       \* self.connection: "None", "connected", "lost" or "closed"
  step,             \* statements done in the running phase (its loop position)
  stmts,            \* the statements sent to the database, in order: <<op, table>>
  inserted,         \* the tables of the INSERT statements that were committed, in order
  delete_failed,    \* clear_all_data: the tables whose DELETE raised (nothing of
                    \* this is kept once clear_all_data has returned)
  db_error,         \* some statement of the run raised a mysql.connector.Error
  success,          \* what run returned: "unset", "True", "False"; "raised": an exception left it
  exit_status,      \* the status the process exited with; NotExited while it runs
  \* the row builders
  built             \* what the row builder last applied returned

cfg == <<auth_token, use_api, team_ids, hours_back, traces_per_hour, logs_per_hour>>
gen == <<t, iter, span_batch, rows, total_traces, total_spans, total_inserted,
         generated, flushed>>
wr == <<wpc, kind, ret, w_rows, payload, i, posts, inserts>>
orch == <<client, clear, truncated, clear_failed>>
rel == <<mpc, clear_existing, held_rows, connection, step, stmts, inserted,
         delete_failed, db_error, success, exit_status>>
\* What the steps of generate_* and of the writers leave alone
others == <<orch, rel, built>>
vars == <<cfg, pc, gen, wr, others>>

\* -------------------------------------------------------------- helpers
Min(a, b) == IF a < b THEN a ELSE b

\* Python's s[i:i + n] for a 0-based i
Slice(s, from, n) == SubSeq(s, from + 1, Min(from + n, Len(s)))

\* One row of the spans table: team_id first, then the trace and span columns.
SpanRow(team_id, trace_id, ix) ==
  [team_id |-> team_id, trace_id |-> trace_id, span_id |-> ix,
   is_root |-> IF ix = 1 THEN 1 ELSE 0]

\* _generate_trace_spans: the root span, then one span per downstream service
generate_trace_spans(team_id, trace_id, children) ==
  [ix \in 1..(1 + children) |-> SpanRow(team_id, trace_id, ix)]

\* One row of the logs table: team_id first; id stands for the other columns.
LogRow(team_id, id) == [team_id |-> team_id, id |-> id]

\* The JSON object built for a row: every column but team_id, renamed.
span_entry(row) ==
  [traceId |-> row.trace_id, spanId |-> row.span_id, isRoot |-> (row.is_root = 1)]

log_entry(row) == [logId |-> row.id]

Entry(k, row) == IF k = "spans" THEN span_entry(row) ELSE log_entry(row)

Path(k) == IF k = "spans" THEN "/api/ingest/spans" ELSE "/api/ingest/logs"

\* Mutant: the threshold test is > instead of >=.
ShouldFlush_Late(batch, threshold) == Len(batch) > threshold

\* `if len(rows) >= batch_size` (line 114), `if len(span_batch) >= 5000` (line 212)
ShouldFlush(batch, threshold) == Len(batch) >= threshold

\* ------------------------------------------------------------------ Init
\* The locals of generate_* and of the writers before any of them has run
generator_idle ==
  /\ traces_per_hour = 0
  /\ logs_per_hour = 0
  /\ t = 1 /\ iter = 0
  /\ span_batch = <<>> /\ rows = <<>>
  /\ total_traces = 0 /\ total_spans = 0 /\ total_inserted = 0
  /\ generated = 0 /\ flushed = <<>>
  /\ wpc = "idle" /\ kind = "spans" /\ ret = "loop"
  /\ w_rows = <<>> /\ payload = <<>> /\ i = 0
  /\ posts = <<>> /\ inserts = <<>>

\* clickhouse_data_generator.py is not the script that is run
clickhouse_off ==
  /\ pc = "off"
  /\ auth_token = None
  /\ use_api = FALSE
  /\ team_ids = <<>>
  /\ hours_back = 0
  /\ generator_idle
  /\ client = "None"
  /\ clear = FALSE
  /\ truncated = <<>>
  /\ clear_failed = {}

\* data_generator.py is not the script that is run
mysql_off ==
  /\ mpc = "off"
  /\ clear_existing = FALSE
  /\ held_rows = FALSE
  /\ connection = "None"
  /\ step = 0
  /\ stmts = <<>>
  /\ inserted = <<>>
  /\ delete_failed = {}
  /\ db_error = FALSE
  /\ success = "unset"
  /\ exit_status = <<>>

\* main of clickhouse_data_generator.py has parsed its arguments and called
\* ClickHouseDataGenerator(...): clickhouse_connect.get_client returned a client
\* and the attributes are set, or it raised and there is no generator
\* ("no_client": the exception leaves main; use_api is then only what the
\* argument would have given).
ClickHouseDataGenerator_init ==
  /\ auth_token \in AuthTokens
  /\ use_api = (auth_token # None)
  /\ team_ids = <<>>
  /\ hours_back \in 0..MaxHours
  /\ clear \in BOOLEAN
  /\ \E got_client \in BOOLEAN :
       /\ pc = IF got_client THEN "constructed" ELSE "no_client"
       /\ client = IF got_client THEN "open" ELSE "None"
  /\ truncated = <<>>
  /\ clear_failed = {}
  /\ generator_idle

\* main of data_generator.py has parsed its arguments and called
\* DataGenerator(db_config)
DataGenerator_init ==
  /\ mpc = "connect"
  /\ clear_existing \in BOOLEAN
  /\ held_rows \in BOOLEAN
  /\ connection = "None"
  /\ step = 0
  /\ stmts = <<>>
  /\ inserted = <<>>
  /\ delete_failed = {}
  /\ db_error = FALSE
  /\ success = "unset"
  /\ exit_status = <<>>

Init ==
  /\ \/ ClickHouseDataGenerator_init /\ mysql_off
     \/ DataGenerator_init /\ clickhouse_off
  /\ built = <<>>

\* ------------------------------------- clickhouse_data_generator.py: run
\* main: generator.set_team_ids(...), then the announcement of the mode, then
\* generator.run(clear=args.clear, hours_back=args.hours) is called
set_team_ids ==
  /\ pc = "constructed"
  /\ \E ids \in TeamIdLists : team_ids' = ids
  /\ pc' = "run"
  /\ UNCHANGED <<auth_token, use_api, hours_back, traces_per_hour, logs_per_hour,
                 gen, wr>>
  /\ UNCHANGED others

\* Python's truth value of args.auth_token (None and "" are false)
Truthy(x) == x \notin {None, ""}

\* main, lines 435-438: the mode main prints once the team ids are set
announced ==
  IF Truthy(auth_token) THEN "Using REST API ingestion endpoints"
  ELSE "Using direct ClickHouse insertion"

\* The tables clear_data truncates, in its order (line 68)
ClearTables == <<"spans", "logs", "incidents">>

\* run calls self.generate_spans(hours_back=hours_back) (line 395)
enter_generate_spans ==
  /\ pc' = "spans"
  /\ \E per_hour \in 0..MaxTraces :
       /\ Len(team_ids) * hours_back * per_hour <= MaxTraces
       /\ traces_per_hour' = per_hour
  /\ UNCHANGED <<auth_token, use_api, team_ids, hours_back, logs_per_hour, gen, wr>>

\* Mutant: the test of clear is inverted.
run_Inverted ==
  /\ pc = "run"
  /\ IF ~clear
     THEN /\ pc' = "clear"
          /\ UNCHANGED <<cfg, gen, wr>>
     ELSE enter_generate_spans
  /\ UNCHANGED <<orch, rel, built>>

\* run, lines 387-395: `if clear: self.clear_data()`, else straight on to
\* generate_spans
run ==
  /\ pc = "run"
  /\ IF clear
     THEN /\ pc' = "clear"
          /\ UNCHANGED <<cfg, gen, wr>>
     ELSE enter_generate_spans
  /\ UNCHANGED <<orch, rel, built>>

\* Mutant: the exception of a TRUNCATE is not caught and leaves run.
clear_data_Uncaught ==
  /\ pc = "clear"
  /\ Len(truncated) < Len(ClearTables)
  /\ LET table == ClearTables[Len(truncated) + 1]
     IN  \E ok \in BOOLEAN :
           /\ truncated' = Append(truncated, table)
           /\ clear_failed' = IF ok THEN clear_failed ELSE clear_failed \cup {table}
           /\ pc' = IF ok THEN pc ELSE "raised"
  /\ UNCHANGED <<cfg, gen, wr, client, clear, rel, built>>

\* clear_data, lines 68-73: one iteration of `for table in [...]`: the
\* TRUNCATE is sent; whatever exception it raises is caught and printed.
clear_data ==
  /\ pc = "clear"
  /\ Len(truncated) < Len(ClearTables)
  /\ LET table == ClearTables[Len(truncated) + 1]
     IN  \E ok \in BOOLEAN :
           /\ truncated' = Append(truncated, table)
           /\ clear_failed' = IF ok THEN clear_failed ELSE clear_failed \cup {table}
  /\ UNCHANGED <<cfg, pc, gen, wr, client, clear, rel, built>>

\* clear_data returns, whichever TRUNCATEs failed, and run goes on to
\* generate_spans.
clear_data_return ==
  /\ pc = "clear"
  /\ Len(truncated) = Len(ClearTables)
  /\ clear_failed' = {}
  /\ enter_generate_spans
  /\ UNCHANGED <<client, clear, truncated, rel, built>>

\* ------------------------------------------------- calling the writer
\* The variables a return from the writer, or an exception out of it, acts on.
retvars == <<t, iter, span_batch, rows, total_inserted>>

\* self._insert_spans(span_batch) / self._insert_logs(rows) is entered
Call(k, batch, from) ==
  /\ wpc' = "call"
  /\ kind' = k
  /\ ret' = from
  /\ w_rows' = batch
  /\ payload' = <<>>
  /\ i' = 0
  /\ posts' = <<>>
  /\ inserts' = <<>>
  /\ flushed' = Append(flushed, batch)

\* Mutant: rows is not cleared after a flush inside the loop.
Return_KeepRows ==
  /\ wpc' = "idle"
  /\ span_batch' = IF kind = "spans" THEN <<>> ELSE span_batch
  /\ total_inserted' = IF kind = "logs" THEN total_inserted + Len(w_rows)
                       ELSE total_inserted
  /\ IF ret = "team_end"
     THEN /\ t' = t + 1
          /\ iter' = 0
          /\ rows' = IF kind = "logs" /\ t + 1 <= Len(team_ids) THEN <<>> ELSE rows
     ELSE /\ UNCHANGED <<t, iter>>
          /\ rows' = rows

\* The writer returns and the statements after the call run:
\*   generate_spans, lines 214 and 218:  span_batch = []
\*   generate_logs, lines 116-117:       total_inserted += len(rows); rows = []
\*   generate_logs, line 121:            total_inserted += len(rows)   (rows is kept)
\* After a team's last flush the team loop moves on; generate_logs starts the
\* next team, if there is one, with rows = [] (line 88).
Return ==
  /\ wpc' = "idle"
  /\ span_batch' = IF kind = "spans" THEN <<>> ELSE span_batch
  /\ total_inserted' = IF kind = "logs" THEN total_inserted + Len(w_rows)
                       ELSE total_inserted
  /\ IF ret = "team_end"
     THEN /\ t' = t + 1
          /\ iter' = 0
          /\ rows' = IF kind = "logs" /\ t + 1 <= Len(team_ids) THEN <<>> ELSE rows
     ELSE /\ UNCHANGED <<t, iter>>
          /\ rows' = IF kind = "logs" THEN <<>> ELSE rows

\* Mutant: the exception of a failed insert is dropped and the writer returns.
Raise_Swallowed ==
  /\ Return
  /\ pc' = pc

\* An exception leaves the writer, generate_*, run and main: nothing runs after it.
Raise ==
  /\ pc' = "raised"
  /\ wpc' = "fatal"
  /\ UNCHANGED retvars

\* The generator goes on without calling the writer: the record of the last
\* writer call (its parameters and its calls) is dropped.
NoCall ==
  /\ wpc' = "idle"
  /\ w_rows' = <<>>
  /\ payload' = <<>>
  /\ i' = 0
  /\ posts' = <<>>
  /\ inserts' = <<>>
  /\ UNCHANGED <<kind, ret, flushed>>

\* --------------------------------------------------------- generate_spans
\* Mutant: the threshold is tested after every span: the batch is cut at the
\* threshold, in the middle of a trace.
generate_spans_trace_FlushPerSpan ==
  /\ pc = "spans" /\ wpc = "idle"
  /\ t <= Len(team_ids)
  /\ iter < hours_back * traces_per_hour
  /\ \E children \in MinChildren..MaxChildren :
       LET spans == generate_trace_spans(team_ids[t], total_traces + 1, children)
           batch == Slice(span_batch \o spans, 0, span_batch_size)
       IN  /\ span_batch' = batch
           /\ total_traces' = total_traces + 1
           /\ total_spans' = total_spans + Len(spans)
           /\ generated' = generated + Len(spans)
           /\ iter' = iter + 1
           /\ IF ShouldFlush(batch, span_batch_size)
              THEN Call("spans", batch, "loop")
              ELSE NoCall
  /\ UNCHANGED <<cfg, pc, t, rows, total_inserted>>
  /\ UNCHANGED others

\* One iteration of `for _ in range(traces_per_hour)` (lines 188-214)
generate_spans_trace ==
  /\ pc = "spans" /\ wpc = "idle"
  /\ t <= Len(team_ids)
  /\ iter < hours_back * traces_per_hour
  /\ \E children \in MinChildren..MaxChildren :
       LET spans == generate_trace_spans(team_ids[t], total_traces + 1, children)
           batch == span_batch \o spans
       IN  /\ span_batch' = batch
           /\ total_traces' = total_traces + 1
           /\ total_spans' = total_spans + Len(spans)
           /\ generated' = generated + Len(spans)
           /\ iter' = iter + 1
           /\ IF ShouldFlush(batch, span_batch_size)
              THEN Call("spans", batch, "loop")
              ELSE NoCall
  /\ UNCHANGED <<cfg, pc, t, rows, total_inserted>>
  /\ UNCHANGED others

\* Mutant: the spans left at the end of a team are kept for the next team.
generate_spans_team_end_NoFlush ==
  /\ pc = "spans" /\ wpc = "idle"
  /\ t <= Len(team_ids)
  /\ iter = hours_back * traces_per_hour
  /\ t' = t + 1
  /\ iter' = 0
  /\ NoCall
  /\ UNCHANGED <<cfg, pc, span_batch, rows, total_traces, total_spans,
                 total_inserted, generated>>
  /\ UNCHANGED others

\* The hour loops of team t are exhausted: `if span_batch:` (lines 216-218)
generate_spans_team_end ==
  /\ pc = "spans" /\ wpc = "idle"
  /\ t <= Len(team_ids)
  /\ iter = hours_back * traces_per_hour
  /\ IF span_batch # <<>>
     THEN /\ Call("spans", span_batch, "team_end")
          /\ UNCHANGED <<t, iter>>
     ELSE /\ t' = t + 1
          /\ iter' = 0
          /\ NoCall
  /\ UNCHANGED <<cfg, pc, span_batch, rows, total_traces, total_spans,
                 total_inserted, generated>>
  /\ UNCHANGED others

\* generate_spans prints its totals and returns (line 220); run enters
\* generate_logs (line 396), whose locals start at lines 84-88.
generate_spans_return ==
  /\ pc = "spans" /\ wpc = "idle"
  /\ t > Len(team_ids)
  /\ pc' = "logs"
  /\ traces_per_hour' = 0
  /\ \E per_hour \in 0..MaxLogs :
       /\ Len(team_ids) * hours_back * per_hour <= MaxLogs
       /\ logs_per_hour' = per_hour
  /\ t' = 1 /\ iter' = 0
  /\ span_batch' = <<>> /\ rows' = <<>>
  /\ total_traces' = 0 /\ total_spans' = 0 /\ total_inserted' = 0
  /\ generated' = 0 /\ flushed' = <<>>
  /\ wpc' = "idle" /\ kind' = "logs" /\ ret' = "loop"
  /\ w_rows' = <<>> /\ payload' = <<>> /\ i' = 0
  /\ posts' = <<>> /\ inserts' = <<>>
  /\ UNCHANGED <<auth_token, use_api, team_ids, hours_back>>
  /\ UNCHANGED others

\* ---------------------------------------------------------- generate_logs
\* One iteration of `for _ in range(logs_per_hour)` (lines 90-117)
generate_logs_row ==
  /\ pc = "logs" /\ wpc = "idle"
  /\ t <= Len(team_ids)
  /\ iter < hours_back * logs_per_hour
  /\ LET batch == Append(rows, LogRow(team_ids[t], generated + 1))
     IN  /\ rows' = batch
         /\ generated' = generated + 1
         /\ iter' = iter + 1
         /\ IF ShouldFlush(batch, batch_size)
            THEN Call("logs", batch, "loop")
            ELSE NoCall
  /\ UNCHANGED <<cfg, pc, t, span_batch, total_traces, total_spans, total_inserted>>
  /\ UNCHANGED others

\* Mutant: the rows left at the end of a team are not flushed.
generate_logs_team_end_NoFlush ==
  /\ pc = "logs" /\ wpc = "idle"
  /\ t <= Len(team_ids)
  /\ iter = hours_back * logs_per_hour
  /\ t' = t + 1
  /\ iter' = 0
  /\ rows' = <<>>
  /\ NoCall
  /\ UNCHANGED <<cfg, pc, span_batch, total_traces, total_spans,
                 total_inserted, generated>>
  /\ UNCHANGED others

\* The hour loops of team t are exhausted: `if rows:` (lines 119-121)
generate_logs_team_end ==
  /\ pc = "logs" /\ wpc = "idle"
  /\ t <= Len(team_ids)
  /\ iter = hours_back * logs_per_hour
  /\ IF rows # <<>>
     THEN /\ Call("logs", rows, "team_end")
          /\ UNCHANGED <<t, iter, rows>>
     ELSE /\ t' = t + 1
          /\ iter' = 0
          /\ rows' = <<>>
          /\ NoCall
  /\ UNCHANGED <<cfg, pc, span_batch, total_traces, total_spans,
                 total_inserted, generated>>
  /\ UNCHANGED others

\* generate_logs prints its total and returns (line 123); run enters
\* generate_incidents (line 397).
generate_logs_return ==
  /\ pc = "logs" /\ wpc = "idle"
  /\ t > Len(team_ids)
  /\ pc' = "incidents"
  /\ logs_per_hour' = 0
  /\ t' = 1 /\ iter' = 0
  /\ span_batch' = <<>> /\ rows' = <<>>
  /\ total_traces' = 0 /\ total_spans' = 0 /\ total_inserted' = 0
  /\ generated' = 0 /\ flushed' = <<>>
  /\ wpc' = "idle" /\ kind' = "incidents" /\ ret' = "loop"
  /\ w_rows' = <<>> /\ payload' = <<>> /\ i' = 0
  /\ posts' = <<>> /\ inserts' = <<>>
  /\ UNCHANGED <<auth_token, use_api, team_ids, hours_back, traces_per_hour>>
  /\ UNCHANGED others

\* ------------------------------------------------------------- the writer
\* Mutant: the fallback inserts the whole batch, not the failed sub-batch.
FallbackRows_WholeBatch == w_rows

\* The rows the fallback passes to client.insert: rows[i:i + batch_size]
FallbackRows == Slice(w_rows, i, api_batch_size)

\* Mutant: the slice is one entry short.
PostBody_Short == Slice(payload, i, api_batch_size - 1)

\* The body of one POST: logs_payload[i:i + batch_size]
PostBody == Slice(payload, i, api_batch_size)

\* _insert_logs / _insert_spans with use_api false: one client.insert of all
\* rows, whose exception, if any, is not caught.
insert_direct ==
  /\ wpc = "call"
  /\ ~use_api
  /\ \E ok \in BOOLEAN :
       /\ inserts' = Append(inserts, [table |-> kind, rows |-> w_rows, at |-> 0, ok |-> ok])
       /\ IF ok THEN Return /\ pc' = pc ELSE Raise
  /\ UNCHANGED <<cfg, kind, ret, w_rows, payload, i, posts,
                 total_traces, total_spans, generated, flushed>>
  /\ UNCHANGED others

\* _insert_logs / _insert_spans with use_api true: _insert_*_via_api builds the
\* payload and enters `for i in range(0, len(payload), batch_size)`.
insert_via_api ==
  /\ wpc = "call"
  /\ use_api
  /\ payload' = [j \in 1..Len(w_rows) |-> Entry(kind, w_rows[j])]
  /\ i' = 0
  /\ IF Len(w_rows) = 0
     THEN Return
     ELSE wpc' = "pending" /\ UNCHANGED retvars
  /\ UNCHANGED <<cfg, pc, kind, ret, w_rows, posts, inserts,
                 total_traces, total_spans, generated, flushed>>
  /\ UNCHANGED others

\* requests.post(...) and response.raise_for_status() inside the try: the call
\* returns a 2xx response (ok), or raises / returns another status (not ok).
api_post ==
  /\ wpc = "pending"
  /\ \E ok \in BOOLEAN :
       posts' = Append(posts, [path |-> Path(kind), json |-> PostBody, at |-> i, ok |-> ok])
  /\ wpc' = "rest_attempted"
  /\ UNCHANGED <<cfg, pc, gen, kind, ret, w_rows, payload, i, inserts>>
  /\ UNCHANGED others

\* The loop moves to the next i, or ends and the writer returns.
NextSubBatch ==
  /\ i' = i + api_batch_size
  /\ IF i + api_batch_size >= Len(payload)
     THEN Return
     ELSE wpc' = "pending" /\ UNCHANGED retvars

\* The try block ended without an exception.
api_post_ok ==
  /\ wpc = "rest_attempted"
  /\ posts[Len(posts)].ok
  /\ NextSubBatch
  /\ UNCHANGED <<cfg, pc, kind, ret, w_rows, payload, posts, inserts,
                 total_traces, total_spans, generated, flushed>>
  /\ UNCHANGED others

\* Mutant: a failed POST switches the writer to Direct mode for good.
api_post_failed_DropsApi ==
  /\ wpc = "rest_attempted"
  /\ ~posts[Len(posts)].ok
  /\ wpc' = "fallback"
  /\ use_api' = FALSE
  /\ UNCHANGED <<auth_token, team_ids, hours_back, traces_per_hour, logs_per_hour,
                 pc, gen, kind, ret, w_rows, payload, i, posts, inserts>>
  /\ UNCHANGED others

\* Mutant: a failed POST is tried again.
api_post_failed_Retry ==
  /\ wpc = "rest_attempted"
  /\ ~posts[Len(posts)].ok
  /\ wpc' = "pending"
  /\ UNCHANGED <<cfg, pc, gen, kind, ret, w_rows, payload, i, posts, inserts>>
  /\ UNCHANGED others

\* `except Exception as e:` is entered and prints its warning.
api_post_failed ==
  /\ wpc = "rest_attempted"
  /\ ~posts[Len(posts)].ok
  /\ wpc' = "fallback"
  /\ UNCHANGED <<cfg, pc, gen, kind, ret, w_rows, payload, i, posts, inserts>>
  /\ UNCHANGED others

\* Mutant: the fallback inserts rows[0:batch_size], whatever i is.
fallback_insert_FirstChunk ==
  /\ wpc = "fallback"
  /\ \E ok \in BOOLEAN :
       /\ inserts' = Append(inserts, [table |-> kind, rows |-> Slice(w_rows, 0, api_batch_size),
                                      at |-> i, ok |-> ok])
       /\ IF ok
          THEN NextSubBatch /\ pc' = pc
          ELSE Raise /\ i' = i
  /\ UNCHANGED <<cfg, kind, ret, w_rows, payload, posts,
                 total_traces, total_spans, generated, flushed>>
  /\ UNCHANGED others

\* Mutant: after one fallback the writer stays on the direct path.
fallback_insert_Sticky ==
  /\ wpc = "fallback"
  /\ \E ok \in BOOLEAN :
       /\ inserts' = Append(inserts, [table |-> kind, rows |-> FallbackRows, at |-> i, ok |-> ok])
       /\ IF ok
          THEN /\ i' = i + api_batch_size
               /\ IF i + api_batch_size >= Len(payload)
                  THEN Return
                  ELSE wpc' = "fallback" /\ UNCHANGED retvars
               /\ pc' = pc
          ELSE Raise /\ i' = i
  /\ UNCHANGED <<cfg, kind, ret, w_rows, payload, posts,
                 total_traces, total_spans, generated, flushed>>
  /\ UNCHANGED others

\* Mutant: an exception of the fallback insert is swallowed.
fallback_insert_Swallow ==
  /\ wpc = "fallback"
  /\ \E ok \in BOOLEAN :
       inserts' = Append(inserts, [table |-> kind, rows |-> FallbackRows, at |-> i, ok |-> ok])
  /\ NextSubBatch
  /\ UNCHANGED <<cfg, pc, kind, ret, w_rows, payload, posts,
                 total_traces, total_spans, generated, flushed>>
  /\ UNCHANGED others

\* The fallback client.insert inside the except block; its own exception is
\* not caught.
fallback_insert ==
  /\ wpc = "fallback"
  /\ \E ok \in BOOLEAN :
       /\ inserts' = Append(inserts, [table |-> kind, rows |-> FallbackRows, at |-> i, ok |-> ok])
       /\ IF ok
          THEN NextSubBatch /\ pc' = pc
          ELSE Raise /\ i' = i
  /\ UNCHANGED <<cfg, kind, ret, w_rows, payload, posts,
                 total_traces, total_spans, generated, flushed>>
  /\ UNCHANGED others

\* ------------------------------------------------------ generate_incidents
IncidentRows ==
  [j \in 1..(Len(team_ids) * IncidentsPerTeam) |->
     [team_id |-> team_ids[((j - 1) \div IncidentsPerTeam) + 1], id |-> j]]

\* Mutant: the incidents are inserted team by team.
generate_incidents_PerTeam ==
  /\ pc = "incidents"
  /\ \E ok \in BOOLEAN :
       /\ inserts' = [n \in 1..Len(team_ids) |->
                        [table |-> "incidents",
                         rows |-> SelectSeq(IncidentRows,
                                            LAMBDA r : r.team_id = team_ids[n]),
                         at |-> 0, ok |-> ok]]
       /\ pc' = IF ok \/ team_ids = <<>> THEN "done" ELSE "raised"
  /\ UNCHANGED <<cfg, gen, wpc, kind, ret, w_rows, payload, i, posts>>
  /\ UNCHANGED others

\* generate_incidents: all rows of all teams, one client.insert if there are any
generate_incidents ==
  /\ pc = "incidents"
  /\ IF IncidentRows # <<>>
     THEN \E ok \in BOOLEAN :
            /\ inserts' = <<[table |-> "incidents", rows |-> IncidentRows, at |-> 0, ok |-> ok]>>
            /\ pc' = IF ok THEN "done" ELSE "raised"
     ELSE /\ inserts' = <<>>
          /\ pc' = "done"
  /\ UNCHANGED <<cfg, gen, wpc, kind, ret, w_rows, payload, i, posts>>
  /\ UNCHANGED others

\* ======================================================= data_generator.py
\* teams_data (lines 134-138) and the longest list of service_templates
\* (lines 179-183)
NumTeams == 3
ServicesPerTeam == 4

\* The tables clear_all_data deletes from, in its order (lines 84-87)
DeleteTables ==
  <<"spans", "traces", "logs", "metrics", "services", "alerts",
    "chart_configs", "api_endpoints", "user_teams", "users", "teams", "organizations">>

Repeat(x, n) == [j \in 1..n |-> x]

\* The INSERT statements of each create_* method, in order: the table of each
create_organization_plan == <<"organizations">>
create_teams_plan == Repeat("teams", NumTeams)
create_users_plan == <<"users">> \o Repeat("user_teams", NumTeams)
create_services_plan == Repeat("services", NumTeams * ServicesPerTeam)
create_chart_configs_plan == Repeat("chart_configs", NumTeams)
create_api_endpoints_plan == Repeat("api_endpoints", NumTeams)
create_alerts_plan == Repeat("alerts", NumTeams)

\* What self.execute / self.execute_many can do with a statement: commit it,
\* raise a mysql.connector.Error, or raise another exception
Outcomes == {"ok", "Error", "Exception"}

\* On a connection that is gone self.connection.cursor() raises an Error
Possible == IF connection = "connected" THEN Outcomes ELSE {"Error"}

\* After a statement has raised, the connection may be gone
AfterFailure == IF connection = "connected" THEN {"connected", "lost"} ELSE {connection}

\* One statement is sent: the record of it
Statement(op, table, outcome) ==
  /\ stmts' = Append(stmts, <<op, table>>)
  /\ inserted' = IF op = "INSERT" /\ outcome = "ok" THEN Append(inserted, table)
                 ELSE inserted
  /\ db_error' = (db_error \/ outcome = "Error")

\* Mutant: the except clause returns True.
Caught_ReturnsTrue ==
  /\ success' = "True"
  /\ mpc' = "finally"
  /\ step' = 0

\* run, lines 615-619: `except Error` prints the error and returns False;
\* the finally block is next
Caught ==
  /\ success' = "False"
  /\ mpc' = "finally"
  /\ step' = 0

\* Any other exception passes the except clause; the finally block is next
Uncaught ==
  /\ success' = "raised"
  /\ mpc' = "finally"
  /\ step' = 0

\* Mutant: connect returns True although the connection was refused.
connect_AlwaysTrue ==
  /\ mpc = "connect"
  /\ \E result \in {"connected", "Error", "not_connected"} :
       /\ connection' = IF result = "connected" THEN "connected"
                        ELSE IF result = "Error" THEN "None" ELSE "lost"
       /\ mpc' = "ensure_tables"
       /\ UNCHANGED success
  /\ UNCHANGED <<clear_existing, held_rows, step, stmts, inserted, delete_failed,
                 db_error, exit_status>>
  /\ UNCHANGED <<cfg, pc, gen, wr, orch, built>>

\* run, lines 558-559, with connect, lines 44-53: mysql.connector.connect
\* returns a connection that is connected (True), or raises Error (False), or
\* returns one that is not connected (connect falls off its end: None); run
\* returns False unless connect returned True.
connect ==
  /\ mpc = "connect"
  /\ \E result \in {"connected", "Error", "not_connected"} :
       /\ connection' = IF result = "connected" THEN "connected"
                        ELSE IF result = "Error" THEN "None" ELSE "lost"
       /\ IF result = "connected"
          THEN mpc' = "ensure_tables" /\ UNCHANGED success
          ELSE mpc' = "returned" /\ success' = "False"
  /\ UNCHANGED <<clear_existing, held_rows, step, stmts, inserted, delete_failed,
                 db_error, exit_status>>
  /\ UNCHANGED <<cfg, pc, gen, wr, orch, built>>

\* ensure_tables, lines 95-114: CREATE TABLE IF NOT EXISTS api_endpoints; then
\* `if clear_existing:` (line 570)
ensure_tables ==
  /\ mpc = "ensure_tables"
  /\ \E outcome \in Possible :
       /\ Statement("CREATE", "api_endpoints", outcome)
       /\ CASE outcome = "ok" ->
                 /\ mpc' = IF clear_existing THEN "clear_all_data" ELSE "create_organization"
                 /\ UNCHANGED <<success, connection, step>>
            [] outcome = "Error" ->
                 Caught /\ connection' \in AfterFailure
            [] outcome = "Exception" ->
                 Uncaught /\ connection' \in AfterFailure
  /\ UNCHANGED <<clear_existing, held_rows, delete_failed, exit_status>>
  /\ UNCHANGED <<cfg, pc, gen, wr, orch, built>>

\* Mutant: the Error of a DELETE is not caught inside clear_all_data.
clear_all_data_Uncaught ==
  /\ mpc = "clear_all_data"
  /\ step < Len(DeleteTables)
  /\ LET table == DeleteTables[step + 1]
     IN  \E outcome \in Possible :
           /\ Statement("DELETE", table, outcome)
           /\ delete_failed' = IF outcome = "Error" THEN delete_failed \cup {table}
                               ELSE delete_failed
           /\ CASE outcome = "ok" ->
                     /\ step' = step + 1
                     /\ UNCHANGED <<mpc, success, connection>>
                [] outcome = "Error" ->
                     Caught /\ connection' \in AfterFailure
                [] outcome = "Exception" ->
                     Uncaught /\ connection' \in AfterFailure
  /\ UNCHANGED <<clear_existing, held_rows, exit_status>>
  /\ UNCHANGED <<cfg, pc, gen, wr, orch, built>>

\* clear_all_data, lines 88-93: one iteration of `for table in tables`: the
\* DELETE is sent; a mysql.connector.Error is caught and dropped (`pass`), any
\* other exception leaves clear_all_data and run.
clear_all_data ==
  /\ mpc = "clear_all_data"
  /\ step < Len(DeleteTables)
  /\ LET table == DeleteTables[step + 1]
     IN  \E outcome \in Possible :
           /\ Statement("DELETE", table, outcome)
           /\ delete_failed' = CASE outcome = "ok" -> delete_failed
                                 [] outcome = "Error" -> delete_failed \cup {table}
                                 [] outcome = "Exception" -> {}
           /\ CASE outcome = "ok" ->
                     /\ step' = step + 1
                     /\ UNCHANGED <<mpc, success, connection>>
                [] outcome = "Error" ->
                     /\ step' = step + 1
                     /\ connection' \in AfterFailure
                     /\ UNCHANGED <<mpc, success>>
                [] outcome = "Exception" ->
                     Uncaught /\ connection' \in AfterFailure
  /\ UNCHANGED <<clear_existing, held_rows, exit_status>>
  /\ UNCHANGED <<cfg, pc, gen, wr, orch, built>>

\* clear_all_data returns, whichever DELETEs failed, and run goes on to
\* create_organization (line 574).
clear_all_data_return ==
  /\ mpc = "clear_all_data"
  /\ step = Len(DeleteTables)
  /\ mpc' = "create_organization"
  /\ step' = 0
  /\ delete_failed' = {}
  /\ UNCHANGED <<clear_existing, held_rows, connection, stmts, inserted, db_error,
                 success, exit_status>>
  /\ UNCHANGED <<cfg, pc, gen, wr, orch, built>>

\* One INSERT of a create_* method (self.execute or self.execute_many inside
\* the try of run). After the last statement of the method run calls the next
\* method; after create_alerts it prints the summary and returns True (line
\* 613). An Error is caught by run's except clause.
create(name, plan, next) ==
  /\ mpc = name
  /\ \E outcome \in Possible :
       /\ Statement("INSERT", plan[step + 1], outcome)
       /\ CASE outcome = "ok" ->
                 /\ IF step + 1 < Len(plan)
                    THEN mpc' = mpc /\ step' = step + 1 /\ UNCHANGED success
                    ELSE /\ mpc' = next
                         /\ step' = 0
                         /\ success' = IF next = "finally" THEN "True" ELSE success
                 /\ UNCHANGED connection
            [] outcome = "Error" ->
                 Caught /\ connection' \in AfterFailure
            [] outcome = "Exception" ->
                 Uncaught /\ connection' \in AfterFailure
  /\ UNCHANGED <<clear_existing, held_rows, delete_failed, exit_status>>
  /\ UNCHANGED <<cfg, pc, gen, wr, orch, built>>

create_organization ==
  create("create_organization", create_organization_plan, "create_teams")

create_teams == create("create_teams", create_teams_plan, "create_users")

create_users == create("create_users", create_users_plan, "create_services")

create_services == create("create_services", create_services_plan, "create_chart_configs")

create_chart_configs ==
  create("create_chart_configs", create_chart_configs_plan, "create_api_endpoints")

create_api_endpoints ==
  create("create_api_endpoints", create_api_endpoints_plan, "create_alerts")

create_alerts == create("create_alerts", create_alerts_plan, "finally")

\* run's finally block (line 621) with disconnect, lines 55-59: the connection
\* is closed if there is one and it is connected
disconnect ==
  /\ mpc = "finally"
  /\ connection' = IF connection = "connected" THEN "closed" ELSE connection
  /\ mpc' = "returned"
  /\ UNCHANGED <<clear_existing, held_rows, step, stmts, inserted, delete_failed,
                 db_error, success, exit_status>>
  /\ UNCHANGED <<cfg, pc, gen, wr, orch, built>>

\* main, lines 653-654: exit(0 if success else 1); an exception that left run
\* leaves main too and the interpreter exits with status 1
main_exit ==
  /\ mpc = "returned"
  /\ exit_status' = IF success = "True" THEN <<0>> ELSE <<1>>
  /\ mpc' = "exited"
  /\ UNCHANGED <<clear_existing, held_rows, connection, step, stmts, inserted,
                 delete_failed, db_error, success>>
  /\ UNCHANGED <<cfg, pc, gen, wr, orch, built>>

\* ------------------------------------------------------------------ Next
Next ==
  \/ set_team_ids
  \/ run
  \/ clear_data
  \/ clear_data_return
  \/ generate_spans_trace
  \/ generate_spans_team_end
  \/ generate_spans_return
  \/ generate_logs_row
  \/ generate_logs_team_end
  \/ generate_logs_return
  \/ insert_direct
  \/ insert_via_api
  \/ api_post
  \/ api_post_ok
  \/ api_post_failed
  \/ fallback_insert
  \/ generate_incidents
  \/ connect
  \/ ensure_tables
  \/ clear_all_data
  \/ clear_all_data_return
  \/ create_organization
  \/ create_teams
  \/ create_users
  \/ create_services
  \/ create_chart_configs
  \/ create_api_endpoints
  \/ create_alerts
  \/ disconnect
  \/ main_exit

Spec == Init /\ [][Next]_vars

\* ================================================================ claims
\* ---------------------------------------------- what the claims speak of
RECURSIVE Flatten(_)
Flatten(batches) ==
  IF batches = <<>> THEN <<>> ELSE Head(batches) \o Flatten(Tail(batches))

Sizes(batches) == [j \in 1..Len(batches) |-> Len(batches[j])]

NoDuplicates(s) == \A j, k \in 1..Len(s) : s[j] = s[k] => j = k

CeilDiv(n, d) == (n + d - 1) \div d

Entries(k, rws) == [j \in 1..Len(rws) |-> Entry(k, rws[j])]

\* generate_spans / generate_logs has left its team loop without an exception
GenerationEnded == pc \in {"spans", "logs"} /\ wpc = "idle" /\ t > Len(team_ids)

\* The accumulator of the running generate_* call
OpenBatch == IF pc = "spans" THEN span_batch ELSE rows

\* A call of _insert_spans / _insert_logs has returned (no exception)
WriterReturned == pc \in {"spans", "logs"} /\ wpc = "idle" /\ w_rows # <<>>

\* The start offsets i of the sub-batches of the batch being written
Offsets == {a \in 0..Len(w_rows) : a % api_batch_size = 0 /\ a < Len(w_rows)}

PostsAt(a) == SelectSeq(posts, LAMBDA p : p.at = a)
InsertsAt(a) == SelectSeq(inserts, LAMBDA x : x.at = a)

\* What the two stores hold of the sub-batch at offset a: the bodies of its
\* POSTs answered 2xx, and the rows of its client.insert calls that returned.
RestStored(a) == Flatten([j \in 1..Len(PostsAt(a)) |->
                   IF PostsAt(a)[j].ok THEN PostsAt(a)[j].json ELSE <<>>])
DirectStored(a) == Flatten([j \in 1..Len(InsertsAt(a)) |->
                     IF InsertsAt(a)[j].ok THEN InsertsAt(a)[j].rows ELSE <<>>])

\* ------------------------------------------------------------------- C1
\* C1 (as claimed): when generate_spans or generate_logs ends without a write
\* call having raised, the flushed batches hold every generated row exactly
\* once (their sizes add up to the number of rows generated) and the open
\* batch is empty.
C1_AsClaimed ==
  GenerationEnded =>
    /\ Len(Flatten(flushed)) = generated
    /\ NoDuplicates(Flatten(flushed))
    /\ OpenBatch = <<>>

\* C1 (amended): when generate_spans or generate_logs ends without a write call
\* having raised, the flushed batches hold every generated row exactly once
\* and no row is left unflushed: span_batch is empty, and rows is empty or is
\* still the last batch that was flushed (generate_logs does not clear rows
\* after a team's final flush).
C1_EveryRowFlushedOnce ==
  GenerationEnded =>
    /\ Len(Flatten(flushed)) = generated
    /\ NoDuplicates(Flatten(flushed))
    /\ pc = "spans" => span_batch = <<>>
    /\ pc = "logs" => (rows = <<>> \/ (flushed # <<>> /\ rows = flushed[Len(flushed)]))
    /\ pc = "logs" => total_inserted = generated

C1_Witness ==
  /\ GenerationEnded
  /\ pc = "logs"
  /\ Len(team_ids) = 2
  /\ Len(flushed) >= 3
  /\ rows # <<>>

\* ------------------------------------------------------------------- C2
\* The most spans one trace adds to span_batch: the root and MaxChildren children
MaxTraceSpans == 1 + MaxChildren

\* C2 (as claimed): no batch passed to _insert_logs or _insert_spans is longer
\* than its flush threshold.
C2_AsClaimed ==
  \A j \in 1..Len(flushed) :
    /\ pc = "logs" => Len(flushed[j]) <= batch_size
    /\ pc = "spans" => Len(flushed[j]) <= span_batch_size

\* C2 (amended): a batch passed to _insert_logs is never longer than the log
\* threshold; a batch passed to _insert_spans was shorter than the span
\* threshold before its last trace was appended, so it is at most
\* threshold - 1 + 5 long (5004 for the threshold 5000), and can be that long.
C2_BatchBound ==
  \A j \in 1..Len(flushed) :
    /\ Len(flushed[j]) > 0
    /\ pc = "logs" => Len(flushed[j]) <= batch_size
    /\ pc = "spans" => Len(flushed[j]) <= span_batch_size - 1 + MaxTraceSpans

C2_Witness ==
  /\ pc = "spans"
  /\ \E j \in 1..Len(flushed) : Len(flushed[j]) = span_batch_size - 1 + MaxTraceSpans

\* ------------------------------------------------------------------- C3
\* The sub-batches of the batch being written whose POST failed
FailedPostOffsets ==
  {a \in Offsets : \E j \in 1..Len(posts) : posts[j].at = a /\ ~posts[j].ok}

\* The writer is through with the sub-batch at offset a: the loop has moved
\* on, or the writer has returned, or an exception has left it.
Handled(a) == i > a \/ wpc \in {"idle", "fatal"}

\* C3 (as claimed): in REST mode, once the writer is through with a sub-batch
\* whose POST failed, exactly the rows of that sub-batch are stored by the
\* direct path, once each, and none of them by the REST path.
C3_AsClaimed ==
  use_api =>
    \A a \in FailedPostOffsets :
      Handled(a) =>
        /\ DirectStored(a) = Slice(w_rows, a, api_batch_size)
        /\ NoDuplicates(DirectStored(a))
        /\ RestStored(a) = <<>>

\* C3 (amended): in REST mode, once the writer is through with a sub-batch
\* whose POST failed, no 2xx POST carried any of its rows and exactly one
\* client.insert was made for it, with exactly the rows of that sub-batch
\* (those the failed POST carried). If that insert returned, exactly those
\* rows are stored by the direct path, once each; if it raised, none of them
\* is stored by either path and the exception has left the writer.
C3_FallbackStoresSubBatch ==
  use_api =>
    \A a \in FailedPostOffsets :
      Handled(a) =>
        /\ RestStored(a) = <<>>
        /\ Len(PostsAt(a)) = 1
        /\ Len(InsertsAt(a)) = 1
        /\ InsertsAt(a)[1].table = kind
        /\ InsertsAt(a)[1].rows = Slice(w_rows, a, api_batch_size)
        /\ Entries(kind, InsertsAt(a)[1].rows) = PostsAt(a)[1].json
        /\ NoDuplicates(InsertsAt(a)[1].rows)
        /\ IF InsertsAt(a)[1].ok
           THEN DirectStored(a) = Slice(w_rows, a, api_batch_size)
           ELSE DirectStored(a) = <<>> /\ pc = "raised"

C3_Witness ==
  /\ use_api
  /\ wpc = "idle"
  /\ \E a \in FailedPostOffsets :
       /\ a > 0
       /\ Len(DirectStored(a)) = api_batch_size

\* ------------------------------------------------------------------- C4
PostBodies == [j \in 1..Len(posts) |-> IF posts[j].ok THEN posts[j].json ELSE <<>>]
InsertRows == [j \in 1..Len(inserts) |-> IF inserts[j].ok THEN inserts[j].rows ELSE <<>>]

\* C4: when a writer call has returned, in REST mode every sub-batch whose
\* POST failed was written by one direct insert of exactly its rows (the index
\* range of the failed body) and by no 2xx POST, every other sub-batch by its
\* POST alone, and the rows written add up to the batch; in Direct mode the
\* whole batch went to the direct store in one insert and nothing was posted.
C4_FailedSubBatchesOnlyDirect ==
  WriterReturned =>
    IF use_api
    THEN /\ \A a \in Offsets :
              /\ Len(PostsAt(a)) = 1
              /\ IF PostsAt(a)[1].ok
                 THEN /\ InsertsAt(a) = <<>>
                      /\ RestStored(a) = Entries(kind, Slice(w_rows, a, api_batch_size))
                 ELSE /\ Len(InsertsAt(a)) = 1
                      /\ DirectStored(a) = Slice(w_rows, a, api_batch_size)
                      /\ Entries(kind, InsertsAt(a)[1].rows) = PostsAt(a)[1].json
                      /\ RestStored(a) = <<>>
         /\ \A j \in 1..Len(posts) : posts[j].at \in Offsets
         /\ \A j \in 1..Len(inserts) : inserts[j].at \in Offsets
         /\ Len(Flatten(PostBodies)) + Len(Flatten(InsertRows)) = Len(w_rows)
    ELSE /\ posts = <<>>
         /\ inserts = <<[table |-> kind, rows |-> w_rows, at |-> 0, ok |-> TRUE]>>

\* REST mode, three sub-batches, the POST of the second one failed
C4_Witness ==
  /\ WriterReturned
  /\ use_api
  /\ Cardinality(Offsets) = 3
  /\ PostsAt(0)[1].ok
  /\ ~PostsAt(api_batch_size)[1].ok
  /\ PostsAt(2 * api_batch_size)[1].ok
  /\ Len(inserts) = 1

\* ------------------------------------------------------------------- C5
\* C5: use_api is true exactly when auth_token is not None, no step changes
\* either (a failed POST included), and in Direct mode nothing is ever posted
\* and a batch causes exactly one client.insert, of the whole batch.
C5_ModeFixed ==
  /\ [](use_api = (auth_token # None))
  /\ [][use_api' = use_api /\ auth_token' = auth_token]_vars
  /\ [](~use_api =>
          /\ posts = <<>>
          /\ Len(inserts) <= 1
          /\ WriterReturned =>
               /\ Len(inserts) = 1
               /\ inserts[1].table = kind
               /\ inserts[1].rows = w_rows)

\* REST mode, a POST failed and the writer went on to POST the next sub-batch
C5_Witness ==
  /\ use_api
  /\ \E j, k \in 1..Len(posts) : j < k /\ ~posts[j].ok

\* ------------------------------------------------------------------- C6
Reached(a) ==
  \/ a < i
  \/ a = i /\ wpc \in {"rest_attempted", "fallback", "fatal"}
  \/ wpc = "idle"

\* C6: in REST mode every sub-batch the loop has reached has had exactly one
\* POST and never gets a second one; a sub-batch gets at most one
\* client.insert, and only while the writer is in the except block of that
\* sub-batch's failed POST.
C6_PostOncePerSubBatch ==
  /\ [](use_api =>
          /\ \A a \in Offsets :
               /\ Len(PostsAt(a)) <= 1
               /\ Len(InsertsAt(a)) <= 1
               /\ Reached(a) => Len(PostsAt(a)) = 1
               /\ InsertsAt(a) # <<>> => PostsAt(a) # <<>> /\ ~PostsAt(a)[1].ok
          /\ pc \in {"spans", "logs"} => \A j \in 1..Len(inserts) : inserts[j].at \in Offsets
          /\ \A j \in 1..Len(posts) : posts[j].at \in Offsets)
  /\ [][(use_api /\ posts' # posts /\ posts' # <<>>) =>
          /\ wpc = "pending"
          /\ PostsAt(i) = <<>>
          /\ Len(posts') = Len(posts) + 1
          /\ posts'[Len(posts')].at = i]_vars
  /\ [][(use_api /\ pc \in {"spans", "logs"} /\ inserts' # inserts /\ inserts' # <<>>) =>
          /\ wpc = "fallback"
          /\ Len(PostsAt(i)) = 1
          /\ ~PostsAt(i)[1].ok
          /\ InsertsAt(i) = <<>>
          /\ Len(inserts') = Len(inserts) + 1
          /\ inserts'[Len(inserts')].at = i]_vars

C6_Witness ==
  /\ use_api
  /\ wpc = "idle"
  /\ Len(posts) >= 2
  /\ \E a \in FailedPostOffsets : Len(InsertsAt(a)) = 1 /\ Len(PostsAt(a)) = 1

\* ------------------------------------------------------------------- C7
\* The state of the sub-batch at offset a, read off the writer's position and
\* the calls it has made
SubState(a) ==
  IF PostsAt(a) = <<>> THEN "Pending"
  ELSE IF InsertsAt(a) # <<>>
       THEN (IF InsertsAt(a)[1].ok THEN "Success" ELSE "Fatal")
  ELSE IF wpc = "rest_attempted" /\ i = a THEN "RestAttempted"
  ELSE IF PostsAt(a)[1].ok THEN "Success"
  ELSE "FallbackDirect"

SubTransitions ==
  { <<"Pending", "RestAttempted">>,
    <<"RestAttempted", "Success">>,
    <<"RestAttempted", "FallbackDirect">>,
    <<"FallbackDirect", "Success">>,
    <<"FallbackDirect", "Fatal">> }

InRestLoop == use_api /\ wpc \in {"pending", "rest_attempted", "fallback"}

\* C7: while the REST loop runs, a sub-batch only moves along
\* Pending -> RestAttempted -> (Success | FallbackDirect -> (Success | Fatal));
\* a step changes the state of the current sub-batch only; whatever the
\* outcome of a sub-batch, the next one starts Pending and is POSTed first;
\* and every POST and every fallback insert carries the rows of its own index
\* range, whatever happened to the sub-batches before it.
C7_SubBatchStateMachine ==
  /\ [][InRestLoop =>
          /\ \A a \in Offsets :
               \/ SubState(a)' = SubState(a)
               \/ <<SubState(a), SubState(a)'>> \in SubTransitions
          /\ \A a \in Offsets \ {i} : SubState(a)' = SubState(a)
          /\ (i' # i /\ wpc' # "idle") =>
               /\ wpc' = "pending"
               /\ \A a \in Offsets : a = i => SubState(a)' = "Success"
               /\ \A a \in Offsets : a = i' => SubState(a)' = "Pending"
          /\ wpc' = "fallback" =>
               \A a \in Offsets : a = i => SubState(a)' = "FallbackDirect"]_vars
  /\ [](use_api /\ pc \in {"spans", "logs", "raised"} =>
          /\ \A j \in 1..Len(posts) :
               posts[j].json = Entries(kind, Slice(w_rows, posts[j].at, api_batch_size))
          /\ \A j \in 1..Len(inserts) :
               inserts[j].table # "incidents" =>
                 inserts[j].rows = Slice(w_rows, inserts[j].at, api_batch_size))

\* Sub-batch a fell back to direct insertion and succeeded; the next one has
\* been POSTed
C7_Witness ==
  /\ use_api
  /\ \E a \in Offsets :
       /\ InsertsAt(a) # <<>>
       /\ SubState(a) = "Success"
       /\ a + api_batch_size \in Offsets
       /\ SubState(a + api_batch_size) = "RestAttempted"

\* ------------------------------------------------------------------- C8
\* C8: in REST mode the POSTs made for a batch are its consecutive sub-batches
\* in order, one POST each, each of 1..api_batch_size rows, to the path of the
\* batch's kind; when the writer call returns there are ceil(n / api_batch_size)
\* of them and their bodies, concatenated, are the batch's rows in order.
C8_SplitIntoSubBatches ==
  (use_api /\ pc \in {"spans", "logs", "raised"}) =>
    /\ \A j \in 1..Len(posts) :
         /\ posts[j].at = (j - 1) * api_batch_size
         /\ posts[j].json = Entries(kind, Slice(w_rows, posts[j].at, api_batch_size))
         /\ Len(posts[j].json) \in 1..api_batch_size
         /\ kind = "logs" => posts[j].path = "/api/ingest/logs"
         /\ kind = "spans" => posts[j].path = "/api/ingest/spans"
    /\ Len(posts) <= CeilDiv(Len(w_rows), api_batch_size)
    /\ WriterReturned =>
         /\ Len(posts) = CeilDiv(Len(w_rows), api_batch_size)
         /\ Flatten([j \in 1..Len(posts) |-> posts[j].json]) = Entries(kind, w_rows)

C8_Witness ==
  /\ WriterReturned
  /\ use_api
  /\ kind = "spans"
  /\ Len(posts) = 3
  /\ Len(w_rows) % api_batch_size # 0

\* ------------------------------------------------------------------- C9
\* C9: a client.insert that fails is the last call the run makes: the
\* exception has left the writer (Direct mode: the insert of the batch; REST
\* mode: the fallback insert of a sub-batch), and after it no POST and no
\* insert is made, for those rows or any other.
C9_InsertFailurePropagates ==
  /\ [](\A j \in 1..Len(inserts) :
          ~inserts[j].ok => (pc = "raised" /\ j = Len(inserts)))
  /\ [](pc = "raised" =>
          /\ inserts # <<>>
          /\ ~inserts[Len(inserts)].ok
          /\ posts # <<>> => posts[Len(posts)].at <= inserts[Len(inserts)].at)
  /\ [][pc = "raised" => (pc' = "raised" /\ posts' = posts /\ inserts' = inserts)]_vars

\* REST mode: the fallback insert of a middle sub-batch raised
C9_Witness ==
  /\ pc = "raised"
  /\ use_api
  /\ wpc = "fatal"
  /\ i > 0
  /\ i + api_batch_size < Len(w_rows)

\* ------------------------------------------------------------------ C10
\* C10: with one team and n = hours_back * logs_per_hour log rows, the flush
\* calls of generate_logs have sizes batch_size, ..., batch_size (n div
\* batch_size of them) and then, if n is no multiple of batch_size, one of
\* n mod batch_size; none is empty; and when generate_logs ends there have
\* been ceil(n / batch_size) of them.
C10_FlushSizes ==
  (pc = "logs" /\ Len(team_ids) = 1) =>
    LET n == hours_back * logs_per_hour
    IN  /\ \A j \in 1..Len(flushed) :
             /\ Len(flushed[j]) > 0
             /\ Len(flushed[j]) = IF j <= n \div batch_size THEN batch_size
                                  ELSE n % batch_size
        /\ Len(flushed) <= CeilDiv(n, batch_size)
        /\ GenerationEnded => Len(flushed) = CeilDiv(n, batch_size)

\* Three flush calls, two full ones and a shorter last one
C10_Witness ==
  /\ pc = "logs"
  /\ Len(team_ids) = 1
  /\ GenerationEnded
  /\ (hours_back * logs_per_hour) % batch_size # 0
  /\ Sizes(flushed) = <<batch_size, batch_size, (hours_back * logs_per_hour) % batch_size>>

\* ------------------------------------------------------------------ C11
Range(s) == {s[j] : j \in 1..Len(s)}

\* The statements clear_all_data has sent after its first n iterations
Deletes(n) == [j \in 1..n |-> <<"DELETE", DeleteTables[j]>>]

\* C11: a TRUNCATE (clear_data) or DELETE (clear_all_data) that raises a
\* database error is ignored: whatever subset of the tables has failed so far,
\* the statement of the next table in the list is sent next, for every table of
\* the list in its order, and when the last one has been sent the run goes on
\* to generate exactly as a run whose clear succeeded: generate_spans starts
\* with its locals untouched, create_organization starts with nothing
\* inserted and no result set.
C11_ClearFailuresIgnored ==
  /\ [](pc = "clear" =>
          /\ Len(truncated) <= Len(ClearTables)
          /\ truncated = SubSeq(ClearTables, 1, Len(truncated))
          /\ clear_failed \subseteq Range(truncated))
  /\ [][(pc = "clear" /\ Len(truncated) < Len(ClearTables)) =>
          /\ pc' = "clear"
          /\ truncated' = Append(truncated, ClearTables[Len(truncated) + 1])]_vars
  /\ [][(pc = "clear" /\ pc' # "clear") =>
          /\ truncated = ClearTables
          /\ pc' = "spans"
          /\ gen' = gen /\ wr' = wr
          /\ generator_idle]_vars
  /\ [](mpc = "clear_all_data" =>
          /\ step <= Len(DeleteTables)
          /\ stmts = <<(<<"CREATE", "api_endpoints">>)>> \o Deletes(step)
          /\ delete_failed \subseteq {DeleteTables[j] : j \in 1..step}
          /\ inserted = <<>> /\ success = "unset")
  /\ [][(mpc = "clear_all_data" /\ delete_failed' # delete_failed /\ delete_failed' # {}) =>
          /\ mpc' = "clear_all_data"
          /\ step' = step + 1
          /\ success' = "unset"]_vars
  /\ [][(mpc = "clear_all_data" /\ mpc' = "create_organization") =>
          /\ stmts = <<(<<"CREATE", "api_endpoints">>)>> \o Deletes(Len(DeleteTables))
          /\ step' = 0
          /\ inserted' = <<>> /\ success' = "unset"]_vars

\* The DELETE of the first table and of a later one failed, the others did
\* not, and all twelve have been sent
C11_Witness ==
  /\ mpc = "clear_all_data"
  /\ step = Len(DeleteTables)
  /\ delete_failed = {"spans", "users"}
  /\ connection = "connected"

\* ------------------------------------------------------------------ C12
\* C12: when the connection cannot be established the run is over at once.
\* data_generator.py: if connect does not return True (mysql.connector.connect
\* raised an Error, or gave a connection that is not connected) run returns
\* False without having sent a statement, sends none afterwards, and the
\* script exits with status 1. clickhouse_data_generator.py: if get_client
\* raised there is no generator: set_team_ids and run are never called, no
\* TRUNCATE, POST or insert is ever made.
C12_ConnectionFailureAborts ==
  /\ [](mpc = "connect" => stmts = <<>> /\ inserted = <<>> /\ success = "unset")
  /\ [][(mpc = "connect" /\ connection' # "connected") =>
          /\ mpc' = "returned"
          /\ success' = "False"
          /\ stmts' = <<>> /\ inserted' = <<>>]_vars
  /\ [][(mpc \in {"returned", "exited"}) =>
          /\ stmts' = stmts /\ inserted' = inserted
          /\ success' = success
          /\ mpc' = "exited"]_vars
  /\ [](mpc = "exited" /\ success = "False" => exit_status = <<1>>)
  /\ [](stmts # <<>> => connection # "None")
  /\ [](pc = "no_client" =>
          /\ client = "None"
          /\ team_ids = <<>> /\ truncated = <<>>
          /\ inserts = <<>> /\ posts = <<>> /\ flushed = <<>> /\ generated = 0)
  /\ [][pc = "no_client" => pc' = "no_client"]_vars
  /\ [](pc \notin {"off", "no_client"} => client = "open")

\* mysql.connector.connect raised: the script has exited with status 1
C12_Witness ==
  /\ mpc = "exited"
  /\ connection = "None"
  /\ stmts = <<>>
  /\ exit_status = <<1>>

\* ------------------------------------------------------------------ C13
\* Every INSERT of a complete run, in order
AllInserts ==
  create_organization_plan \o create_teams_plan \o create_users_plan
    \o create_services_plan \o create_chart_configs_plan
    \o create_api_endpoints_plan \o create_alerts_plan

\* All phases of run were gone through to the end
RunCompleted == inserted = AllInserts

\* C13 (as claimed): data_generator.py exits with status 0 exactly when every
\* phase of run completed and no statement raised a database error; after a
\* failed connect or a database error of any statement the status is not 0.
C13_AsClaimed ==
  mpc = "exited" =>
    /\ exit_status = <<0>> <=> (RunCompleted /\ ~db_error)
    /\ (connection = "None" \/ db_error) => exit_status # <<0>>

\* C13 (amended): data_generator.py exits with status 0 exactly when connect
\* succeeded and the CREATE TABLE of ensure_tables and every INSERT of the
\* create_* methods were committed, and with status 1 otherwise (connect
\* failed, or one of those statements raised). A database error of a DELETE
\* of clear_all_data is dropped and does not change the status.
C13_ExitStatus ==
  /\ mpc # "exited" => exit_status = <<>>
  /\ mpc = "exited" =>
       /\ exit_status \in {<<0>>, <<1>>}
       /\ exit_status = <<0>> <=> RunCompleted
       /\ exit_status = <<0>> <=> success = "True"
       /\ RunCompleted =>
            /\ connection = "closed"
            /\ stmts[1] = <<"CREATE", "api_endpoints">>
            /\ SelectSeq(stmts, LAMBDA st : st[1] = "INSERT")
                 = [j \in 1..Len(AllInserts) |-> <<"INSERT", AllInserts[j]>>]
       /\ ~RunCompleted =>
            \/ stmts = <<>> /\ connection \in {"None", "lost"}
            \/ success \in {"False", "raised"} /\ stmts # <<>>

\* Status 0 although a DELETE of clear_all_data raised a database error
C13_Witness ==
  /\ mpc = "exited"
  /\ exit_status = <<0>>
  /\ clear_existing
  /\ db_error

\* ------------------------------------------------------------------ C14
\* The run of a script has ended, normally or with an exception
RunEnded == mpc \in {"returned", "exited"} \/ pc \in {"done", "raised"}

\* C14 (as claimed): when the run of either script has ended, normally or
\* with an exception, the connection or client opened for it is no longer
\* open.
C14_AsClaimed ==
  RunEnded => (connection # "connected" /\ client # "open")

\* ------------------------------------------------------------------ C15
\* The running generate_* call has handed rows to a writer, or an insert or a
\* POST has been made
Written == flushed # <<>> \/ inserts # <<>> \/ posts # <<>>

StatementsOf(op) == {j \in 1..Len(stmts) : stmts[j][1] = op}

\* C15: with --clear every TRUNCATE / DELETE of the run is sent before the
\* first row is written (all of them have been sent by then and none is sent
\* later, so nothing the run wrote is removed by it); without --clear no
\* TRUNCATE or DELETE is sent at all.
C15_ClearBeforeInsert ==
  /\ [](~clear => truncated = <<>>)
  /\ [][truncated' # truncated =>
          /\ clear /\ pc = "clear"
          /\ ~Written /\ generated = 0]_vars
  /\ [](pc \in {"spans", "logs", "incidents", "done", "raised"} =>
          truncated = IF clear THEN ClearTables ELSE <<>>)
  /\ [](Written => pc \in {"spans", "logs", "incidents", "done", "raised"})
  /\ [](~clear_existing => StatementsOf("DELETE") = {})
  /\ [](\A d \in StatementsOf("DELETE"), n \in StatementsOf("INSERT") : d < n)
  /\ [](clear_existing /\ StatementsOf("INSERT") # {} =>
          Cardinality(StatementsOf("DELETE")) = Len(DeleteTables))
  /\ [](Len(inserted) <= Cardinality(StatementsOf("INSERT")))

\* --clear, REST mode: the three TRUNCATEs were sent and rows have been POSTed
C15_Witness ==
  /\ clear
  /\ truncated = ClearTables
  /\ use_api
  /\ posts # <<>>
  /\ flushed # <<>>

\* ------------------------------------------------------------------ C16
\* C16 (as claimed): when the tables hold rows of an earlier run and the
\* script is run without --clear, the run inserts nothing.
C16_AsClaimed ==
  (held_rows /\ ~clear_existing) => inserted = <<>>

\* ------------------------------------------------------------------ C22
\* C22 (as claimed): once main has announced the mode, REST API ingestion
\* is what it announced if and only if use_api is true, whatever
\* --auth-token was (absent, empty, non-empty).
C22_AsClaimed ==
  pc \notin {"off", "no_client", "constructed"} =>
    (announced = "Using REST API ingestion endpoints" <=> use_api)

\* ------------------------------------------------------------------ C23
\* A client.insert has just failed: the call this step added to inserts raised
InsertFailed ==
  /\ inserts' # inserts
  /\ inserts' # <<>>
  /\ ~inserts'[Len(inserts')].ok

\* C23: once a direct insert fails (the insert of Direct mode, the fallback
\* insert of a failed POST, or the insert of the incidents) the run of the
\* columnar script stops: the failure ends the run in the same step, it is
\* the last call made, no sub-batch after the failed one was posted or
\* inserted, and from then on nothing is generated, flushed, posted or
\* inserted and no later generate_* is entered.
C23_RunStopsAtFailedInsert ==
  /\ [][InsertFailed => pc' = "raised"]_vars
  /\ [](pc = "raised" =>
          /\ inserts # <<>>
          /\ ~inserts[Len(inserts)].ok
          /\ inserts[Len(inserts)].table = kind
          /\ \A j \in 1..Len(posts) : posts[j].at <= inserts[Len(inserts)].at
          /\ \A j \in 1..Len(inserts) : inserts[j].at <= inserts[Len(inserts)].at)
  /\ [][pc = "raised" => (pc' = "raised" /\ UNCHANGED <<cfg, gen, wr>>)]_vars

\* Direct mode: the insert of a span batch failed with traces still to be
\* generated, and with them the logs and the incidents
C23_Witness ==
  /\ pc = "raised"
  /\ ~use_api
  /\ kind = "spans"
  /\ ret = "loop"
  /\ iter < hours_back * traces_per_hour
  /\ flushed # <<>>

\* ------------------------------------------------------------------ C24
\* generate_incidents has run: it returned, or its insert raised
IncidentsWritten == kind = "incidents" /\ pc \in {"done", "raised"}

\* C24: in both modes generate_incidents posts nothing and makes at most one
\* client.insert: none when there is no incident (no team), and otherwise
\* one, into incidents, of all incidents of all teams, however many they are.
C24_IncidentsOneDirectInsert ==
  /\ pc = "incidents" => (posts = <<>> /\ inserts = <<>>)
  /\ pc = "done" => kind = "incidents"
  /\ IncidentsWritten =>
       /\ posts = <<>>
       /\ Len(inserts) <= 1
       /\ Len(team_ids) * IncidentsPerTeam = 0 <=> inserts = <<>>
       /\ \A j \in 1..Len(inserts) :
            /\ inserts[j].table = "incidents"
            /\ inserts[j].rows = IncidentRows
            /\ Len(inserts[j].rows) = Len(team_ids) * IncidentsPerTeam
            /\ \A n \in 1..Len(team_ids) :
                 Len(SelectSeq(inserts[j].rows,
                               LAMBDA r : r.team_id = team_ids[n]))
                   >= IncidentsPerTeam

\* REST mode, two teams: one insert of more rows than any flush threshold
C24_Witness ==
  /\ IncidentsWritten
  /\ pc = "done"
  /\ use_api
  /\ team_ids = <<"team-a", "team-b">>
  /\ Len(inserts) = 1
  /\ Len(inserts[1].rows) > batch_size
  /\ Len(inserts[1].rows) > span_batch_size
  /\ Len(inserts[1].rows) > api_batch_size

\* ------------------------------------------------------------------ C25
\* generate_spans is running, or an exception of its writer has ended the run
InGenerateSpans == kind = "spans" /\ pc \in {"spans", "raised"}

\* The spans appended to span_batch that no call of _insert_spans was given
Unflushed == IF wpc = "idle" THEN span_batch ELSE <<>>

\* The trace ids of the rows of a batch
TraceIds(batch) == {batch[j].trace_id : j \in 1..Len(batch)}

\* The rows of a batch that belong to one trace
SpansOf(batch, trace_id) == SelectSeq(batch, LAMBDA r : r.trace_id = trace_id)

\* A batch is made of whole traces: it starts with a root span, every other
\* span follows the span before it of the same trace, and every trace in it
\* has its root and between MinChildren and MaxChildren children.
WholeTraces(batch) ==
  /\ \A j \in 1..Len(batch) :
       /\ batch[j].is_root = 1 <=> batch[j].span_id = 1
       /\ j = 1 => batch[j].is_root = 1
       /\ (j > 1 /\ batch[j].is_root = 0) =>
            /\ batch[j - 1].trace_id = batch[j].trace_id
            /\ batch[j].span_id = batch[j - 1].span_id + 1
       /\ (j > 1 /\ batch[j].is_root = 1) =>
            batch[j - 1].trace_id # batch[j].trace_id
  /\ \A id \in TraceIds(batch) :
       Len(SpansOf(batch, id)) \in (1 + MinChildren)..(1 + MaxChildren)

\* C25: every batch passed to _insert_spans is made of whole traces, no trace
\* has spans in two batches or in a batch and in the spans not yet flushed,
\* and no span generated is missing: all spans of a trace are in one batch.
C25_FlushAtTraceBoundaries ==
  InGenerateSpans =>
    /\ \A j \in 1..Len(flushed) : WholeTraces(flushed[j])
    /\ WholeTraces(Unflushed)
    /\ \A j, k \in 1..Len(flushed) :
         j # k => TraceIds(flushed[j]) \cap TraceIds(flushed[k]) = {}
    /\ \A j \in 1..Len(flushed) :
         TraceIds(flushed[j]) \cap TraceIds(Unflushed) = {}
    /\ Len(Flatten(flushed)) + Len(Unflushed) = generated
    /\ generated = total_spans
    /\ wpc # "idle" => (flushed # <<>> /\ w_rows = flushed[Len(flushed)])

\* A batch whose last trace crossed the threshold: it is longer than the
\* threshold and holds that trace whole
C25_Witness ==
  /\ InGenerateSpans
  /\ \E j \in 1..Len(flushed) :
       LET batch == flushed[j]
       IN  /\ Len(batch) > span_batch_size
           /\ Cardinality(TraceIds(batch)) >= 2
           /\ \E r \in 2..span_batch_size :
                /\ batch[r].is_root = 1
                /\ \A q \in r..Len(batch) : batch[q].trace_id = batch[r].trace_id

\* ------------------------------------------------------------------ C26
\* generate_spans or generate_logs is running, or an exception of its writer
\* has ended the run
InGenerate == kind \in {"spans", "logs"} /\ pc \in {"spans", "logs", "raised"}

\* All rows of a batch have the team_id of its first row
OneTeam(batch) == \A r \in 1..Len(batch) : batch[r].team_id = batch[1].team_id

\* The accumulator of the generate_* call that is running or was ended
Accumulator == IF kind = "spans" THEN span_batch ELSE rows

\* C26: every batch passed to _insert_spans or _insert_logs is not empty and
\* holds rows of one team_id only; so does the batch being accumulated, whose
\* rows are rows of the team the team loop is at; whatever list of team ids
\* was given.
C26_BatchesOfOneTeam ==
  InGenerate =>
    /\ \A j \in 1..Len(flushed) : flushed[j] # <<>> /\ OneTeam(flushed[j])
    /\ OneTeam(w_rows)
    /\ OneTeam(Accumulator)
    /\ (t <= Len(team_ids) /\ Accumulator # <<>>) =>
         Accumulator[1].team_id = team_ids[t]

\* Two teams: a batch of the first team, shorter than the threshold, was
\* flushed at the end of that team, then a batch of the second team
C26_Witness ==
  /\ InGenerate
  /\ kind = "spans"
  /\ team_ids = <<"team-a", "team-b">>
  /\ Len(flushed) = 2
  /\ Len(flushed[1]) < span_batch_size
  /\ flushed[1][1].team_id = "team-a"
  /\ flushed[2][1].team_id = "team-b"

\* ============================================================ row builders
\* The tables of clickhouse_data_generator.py the row builders draw from.
\* SERVICES: the services in the order of the dict, with their endpoints.
SERVICES ==
  << [name |-> "api-gateway",
      endpoints |-> <<"/api/v1/users", "/api/v1/orders", "/api/v1/products",
                      "/api/v1/payments">>],
     [name |-> "user-service",
      endpoints |-> <<"/users", "/users/{id}", "/users/auth", "/users/profile">>],
     [name |-> "order-service",
      endpoints |-> <<"/orders", "/orders/{id}", "/orders/status",
                      "/orders/history">>],
     [name |-> "payment-service",
      endpoints |-> <<"/payments", "/payments/process", "/payments/refund",
                      "/payments/verify">>],
     [name |-> "inventory-service",
      endpoints |-> <<"/inventory", "/inventory/check", "/inventory/reserve">>],
     [name |-> "notification-service",
      endpoints |-> <<"/notify/email", "/notify/sms", "/notify/push">>] >>

\* list(SERVICES.keys())
SERVICES_keys == [n \in 1..Len(SERVICES) |-> SERVICES[n].name]

\* SERVICES[service_name]["endpoints"]
endpoints(service_name) ==
  (CHOOSE s \in Range(SERVICES) : s.name = service_name).endpoints

LOG_LEVELS == <<"TRACE", "DEBUG", "INFO", "WARN", "ERROR">>

HTTP_METHODS == <<"GET", "POST", "PUT", "DELETE">>

HTTP_STATUS_CODES == <<200, 201, 400, 401, 404, 500, 503>>

ERROR_MESSAGES ==
  <<"Connection timeout", "Database pool exhausted", "Auth token expired",
    "Rate limit exceeded", "Service unavailable", "Invalid payload">>

INFO_MESSAGES ==
  <<"Request processed", "User authenticated", "Order created",
    "Payment processed", "Cache hit", "Query executed">>

\* The draws of random.randint(a, b) that are explored: its two ends.
randint(a, b) == {a, b}

\* random.choice(seq): any element
choice(seq) == Range(seq)

Max(a, b) == IF a > b THEN a ELSE b

\* random.sample(population, k): k elements, in any order, none taken twice
RECURSIVE sample(_, _)
sample(population, k) ==
  IF k = 0 THEN {<<>>}
  ELSE UNION {{<<x>> \o rest : rest \in sample(population \ {x}, k - 1)} :
              x \in population}

\* A datetime is a number of time units after the script's now; a column
\* that holds a datetime or None is <<>> for None and <<d>> for the datetime d.
NoDatetime == <<>>

\* The {} every row ends with (its attributes column)
EmptyDict == <<>>

\* ------------------------------------------------- generate_incidents rows
severities == <<"CRITICAL", "HIGH", "MEDIUM", "LOW">>

statuses == <<"OPEN", "ACKNOWLEDGED", "RESOLVED">>

\* The draws of one incident.  day is the first or the last value of
\* range(days_back); the delays are in minutes.
IncidentDraws ==
  [day : {0, 29}, hours : randint(0, 23), status : choice(statuses),
   severity : choice(severities), service_name : choice(SERVICES_keys),
   ack_minutes : randint(5, 60), resolve_minutes : randint(30, 240),
   incident_id : {"uuid-1"}, alert_policy_id : {"uuid-2"}]

acknowledged(status) == status \in {"ACKNOWLEDGED", "RESOLVED"}

resolved_WhenAcknowledged(status) == status \in {"ACKNOWLEDGED", "RESOLVED"}

resolved(status) == status = "RESOLVED"

\* The row generate_incidents appends for one incident; datetimes in minutes.
incident_row(team_id, d) ==
  LET created_at == 0 - (d.day * 24 * 60 + d.hours * 60)
      acknowledged_at ==
        IF acknowledged(d.status) THEN <<created_at + d.ack_minutes>>
        ELSE NoDatetime
      acknowledged_by ==
        IF acknowledged(d.status) THEN "demo@observex.io" ELSE None
      resolved_at ==
        IF resolved(d.status) THEN <<acknowledged_at[1] + d.resolve_minutes>>
        ELSE NoDatetime
  IN  [team_id |-> team_id, incident_id |-> d.incident_id,
       alert_policy_id |-> d.alert_policy_id,
       title |-> d.severity \o " alert: " \o d.service_name
                 \o " - High error rate",
       description |-> "Error rate exceeded threshold for " \o d.service_name,
       severity |-> d.severity,
       priority |-> IF d.severity = "CRITICAL" THEN "P1" ELSE "P2",
       status |-> d.status, source |-> "prometheus",
       service_name |-> d.service_name,
       created_at |-> created_at, updated_at |-> created_at,
       resolved_at |-> resolved_at, acknowledged_at |-> acknowledged_at,
       acknowledged_by |-> acknowledged_by]

\* Nothing of either script runs while the row builders are applied.
InitRows ==
  /\ clickhouse_off
  /\ mysql_off
  /\ built = <<>>

\* generate_incidents, lines 350-373: one incident row, for every draw
build_incident ==
  /\ built = <<>>
  /\ \E team_id \in TeamIdValues, d \in IncidentDraws :
       built' = <<[fn |-> "generate_incidents", draw |-> d,
                   row |-> incident_row(team_id, d)]>>
  /\ UNCHANGED <<cfg, pc, gen, wr, orch, rel>>

\* The incident rows built
Incidents == {b.row : b \in {x \in Range(built) : x.fn = "generate_incidents"}}

\* ------------------------------------------------------------------ C17
\* C17: for every generated incident, acknowledged_at is set exactly when
\* the status is ACKNOWLEDGED or RESOLVED, resolved_at is set exactly when
\* the status is RESOLVED, and whenever they are set
\* resolved_at >= acknowledged_at >= created_at.
C17_IncidentTimestamps ==
  \A r \in Incidents :
    /\ r.acknowledged_at # NoDatetime
         <=> r.status \in {"ACKNOWLEDGED", "RESOLVED"}
    /\ r.resolved_at # NoDatetime <=> r.status = "RESOLVED"
    /\ r.acknowledged_at # NoDatetime
         => r.acknowledged_at[1] >= r.created_at
    /\ r.resolved_at # NoDatetime
         => /\ r.acknowledged_at # NoDatetime
            /\ r.resolved_at[1] >= r.acknowledged_at[1]

\* a resolved incident, with both timestamps set after created_at
C17_Witness ==
  \E r \in Incidents :
    /\ r.status = "RESOLVED"
    /\ r.resolved_at # NoDatetime
    /\ r.acknowledged_at # NoDatetime
    /\ r.resolved_at[1] > r.created_at

\* ------------------------------------------------- _generate_trace_spans
root_status_Above500(http_status) == IF http_status > 500 THEN "ERROR" ELSE "OK"

\* line 242: "ERROR" if http_status >= 500 else "OK"
root_status(http_status) == IF http_status >= 500 THEN "ERROR" ELSE "OK"

downstream_population_All == SERVICES_keys

\* line 252: list(SERVICES.keys())[1:], what the downstream services are
\* sampled from
downstream_population == Tail(SERVICES_keys)

\* The draws of one trace.  span_ids are the uuids, the root's first (the
\* second list has the root's uuid drawn again for a child); timing picks
\* the low or the high end of every child's duration and gap; the children
\* numbered in error_children draw the status ERROR.
TraceDraws ==
  [start_time : {-3540000, 0}, span_ids : {<<"s1", "s2", "s3", "s4", "s5">>,
                                            <<"s1", "s1", "s2", "s3", "s4">>},
   root_duration : randint(50, 500), http_method : {"GET"},
   http_status : choice(HTTP_STATUS_CODES), endpoint : {1}, url : {2},
   downstream_services :
     UNION {sample(Range(downstream_population), k) : k \in MinChildren..MaxChildren},
   timing : {"low", "high"}, error_children : {{}, {1}}]

\* the end of randint(lo, hi) that timing picks
Pick(timing, lo, hi) == IF timing = "low" THEN lo ELSE hi

\* lines 254-271: the spans of downstream_services[n..], the first of them
\* starting at current_time; datetimes in milliseconds.
RECURSIVE child_spans(_, _, _, _)
child_spans(d, n, current_time, remaining_duration) ==
  IF n > Len(d.downstream_services) THEN <<>>
  ELSE
    LET service_name == d.downstream_services[n]
        span_duration ==
          Pick(d.timing, 10, Max(20, remaining_duration \div 2))
        span ==
          [span_id |-> d.span_ids[n + 1], parent_span_id |-> d.span_ids[1],
           is_root |-> 0,
           operation_name |-> endpoints(service_name)[d.endpoint],
           service_name |-> service_name, span_kind |-> "SERVER",
           start_time |-> current_time,
           end_time |-> current_time + span_duration,
           duration_ms |-> span_duration,
           status |-> IF n \in d.error_children THEN "ERROR" ELSE "OK"]
    IN  <<span>> \o
        child_spans(d, n + 1,
                    current_time + span_duration + Pick(d.timing, 1, 5),
                    remaining_duration)

\* _generate_trace_spans, lines 222-273: the span dicts of one trace
trace_spans(team_id, trace_id, d) ==
  LET root_span ==
        [span_id |-> d.span_ids[1], parent_span_id |-> None, is_root |-> 1,
         operation_name |-> endpoints("api-gateway")[d.endpoint],
         service_name |-> "api-gateway", span_kind |-> "SERVER",
         start_time |-> d.start_time,
         end_time |-> d.start_time + d.root_duration,
         duration_ms |-> d.root_duration,
         status |-> root_status(d.http_status),
         http_method |-> d.http_method,
         http_url |-> "https://api.example.com"
                      \o endpoints("api-gateway")[d.url],
         http_status_code |-> d.http_status]
  IN  <<root_span>> \o
      child_spans(d, 1, d.start_time + 5, d.root_duration - 10)

\* _generate_trace_spans for every draw
build_trace ==
  /\ built = <<>>
  /\ \E d \in TraceDraws :
       built' = <<[fn |-> "_generate_trace_spans", draw |-> d,
                   team_id |-> "team-a", trace_id |-> 1,
                   spans |-> trace_spans("team-a", 1, d)]>>
  /\ UNCHANGED <<cfg, pc, gen, wr, orch, rel>>

\* The traces built
Traces == {x \in Range(built) : x.fn = "_generate_trace_spans"}

\* ------------------------------------------------------------------ C18
\* C18: the root span of a generated trace has the status ERROR if and only
\* if its drawn http_status_code is at least 500, and OK otherwise; so it is
\* for every code of HTTP_STATUS_CODES.
C18_RootStatus ==
  /\ \A b \in Traces :
       LET root == b.spans[1]
       IN  /\ root.http_status_code = b.draw.http_status
           /\ root.status = "ERROR" <=> root.http_status_code >= 500
           /\ root.status = "OK" <=> root.http_status_code < 500
  /\ \A c \in Range(HTTP_STATUS_CODES) :
       /\ root_status(c) = "ERROR" <=> c >= 500
       /\ root_status(c) = "OK" <=> c < 500

\* a trace whose root drew exactly 500, the least code that is an error
C18_Witness ==
  \E b \in Traces :
    b.spans[1].http_status_code = 500 /\ b.spans[1].status = "ERROR"

\* ------------------------------------------------------------------ C19
\* C19: a generated trace is one root span (is_root = 1, no parent), first,
\* then between 2 and 4 child spans; every child has is_root = 0, the
\* root's span id as its parent and a start time not before the trace's
\* start time; the children's services are pairwise distinct and none is
\* the root's service.  The rows generate_spans counts for the trace are
\* these spans.
C19_TraceShape ==
  \A b \in Traces :
    LET spans == b.spans
        root == spans[1]
        children == 2..Len(spans)
    IN  /\ Len(spans) - 1 \in MinChildren..MaxChildren
        /\ root.is_root = 1
        /\ root.parent_span_id = None
        /\ root.start_time = b.draw.start_time
        /\ \A n \in children :
             /\ spans[n].is_root = 0
             /\ spans[n].parent_span_id = root.span_id
             /\ spans[n].start_time >= b.draw.start_time
             /\ spans[n].service_name # root.service_name
             /\ \A m \in children :
                  m # n => spans[m].service_name # spans[n].service_name
        /\ LET counted == generate_trace_spans(b.team_id, b.trace_id,
                                               Len(spans) - 1)
           IN  /\ Len(counted) = Len(spans)
               /\ \A n \in 1..Len(spans) :
                    counted[n].is_root = spans[n].is_root

\* a trace of the most children, one of them of the last service
C19_Witness ==
  \E b \in Traces :
    /\ Len(b.spans) = 1 + MaxChildren
    /\ \E n \in 2..Len(b.spans) :
         b.spans[n].service_name = "notification-service"
    /\ b.spans[Len(b.spans)].start_time > b.draw.start_time

\* ------------------------------------------------------ generate_logs rows
\* The draws of one log row.  message is the place drawn in the message
\* list; traced is random.random() > 0.3.
LogDraws ==
  [minutes : randint(0, 59), seconds : {0},
   service_name : choice(SERVICES_keys), level : choice(LOG_LEVELS),
   message : 1..Len(ERROR_MESSAGES), traced : BOOLEAN,
   trace_id : {"uuid-1"}, span_id : {"uuid-2"},
   host : randint(1, 5), pod : {1}, thread : {20}]

\* str(n) for the numbers drawn for host, pod and thread
str(n) ==
  CASE n = 1 -> "1" [] n = 2 -> "2" [] n = 3 -> "3" [] n = 4 -> "4"
    [] n = 5 -> "5" [] n = 20 -> "20"

\* lines 96-101: the message of a row of this level
log_message(level, place) ==
  IF level = "ERROR" THEN ERROR_MESSAGES[place] ELSE INFO_MESSAGES[place]

log_exception_Always(level, message) ==
  "java.lang.RuntimeException: " \o message
    \o "\n\tat com.example.Service.method(Service.java:42)"

\* lines 96-101: the exception column of a row of this level
log_exception(level, message) ==
  IF level = "ERROR"
  THEN "java.lang.RuntimeException: " \o message
         \o "\n\tat com.example.Service.method(Service.java:42)"
  ELSE ""

\* service_name.replace('-', '.') for the names of SERVICES
dotted(service_name) ==
  CASE service_name = "api-gateway" -> "api.gateway"
    [] service_name = "user-service" -> "user.service"
    [] service_name = "order-service" -> "order.service"
    [] service_name = "payment-service" -> "payment.service"
    [] service_name = "inventory-service" -> "inventory.service"
    [] service_name = "notification-service" -> "notification.service"

\* The row generate_logs appends, lines 91-112, for the hour-th hour back;
\* datetimes in seconds.
log_row(team_id, hour, d) ==
  LET message == log_message(d.level, d.message)
      trace_id == IF d.traced THEN d.trace_id ELSE ""
  IN  [team_id |-> team_id,
       timestamp |-> 0 - (hour * 3600 + d.minutes * 60 + d.seconds),
       level |-> d.level, service_name |-> d.service_name,
       logger |-> "com.example." \o dotted(d.service_name) \o ".Handler",
       message |-> message, trace_id |-> trace_id,
       span_id |-> IF trace_id # "" THEN d.span_id ELSE "",
       host |-> "host-" \o str(d.host),
       pod |-> "pod-" \o d.service_name \o "-" \o str(d.pod),
       container |-> d.service_name,
       thread |-> "thread-" \o str(d.thread),
       exception |-> log_exception(d.level, message),
       attributes |-> EmptyDict]

\* one log row of generate_logs, for every draw
build_log ==
  /\ built = <<>>
  /\ \E team_id \in TeamIdValues, d \in LogDraws :
       built' = <<[fn |-> "generate_logs", draw |-> d,
                   row |-> log_row(team_id, 0, d)]>>
  /\ UNCHANGED <<cfg, pc, gen, wr, orch, rel>>

\* The log rows built
Logs == {b.row : b \in {x \in Range(built) : x.fn = "generate_logs"}}

\* ------------------------------------------------------------------ C20
\* C20: a generated log row of level ERROR has a message of ERROR_MESSAGES
\* and a non-empty stack trace in its exception column; a row of any other
\* level has a message of INFO_MESSAGES and an empty exception column.
C20_LogMessageByLevel ==
  \A r \in Logs :
    IF r.level = "ERROR"
    THEN /\ r.message \in Range(ERROR_MESSAGES)
         /\ r.exception # ""
         /\ Len(r.exception) > Len(r.message)
    ELSE /\ r.message \in Range(INFO_MESSAGES)
         /\ r.exception = ""

\* an ERROR row with its stack trace
C20_Witness ==
  \E r \in Logs :
    /\ r.level = "ERROR"
    /\ r.message = "Invalid payload"
    /\ r.exception # ""

\* ------------------------------------------- the rows and their JSON objects
\* column_names of client.insert("logs", ...) (lines 129-133 and 171-175)
logs_column_names ==
  <<"team_id", "timestamp", "level", "service_name", "logger", "message",
    "trace_id", "span_id", "host", "pod", "container", "thread", "exception",
    "attributes">>

\* column_names of client.insert("spans", ...) (lines 279-285 and 329-335)
spans_column_names ==
  <<"team_id", "trace_id", "span_id", "parent_span_id", "is_root",
    "operation_name", "service_name", "span_kind", "start_time", "end_time",
    "duration_ms", "status", "status_message", "http_method", "http_url",
    "http_status_code", "host", "pod", "container", "attributes">>

\* Python's row[k], k counted from 0
At(row, k) == row[k + 1]

\* The list generate_logs appends (lines 106-112): the columns in their order
log_list(r) == [c \in 1..Len(logs_column_names) |-> r[logs_column_names[c]]]

\* span.get(key, default)
Get(span, key, default) == IF key \in DOMAIN span THEN span[key] ELSE default

\* generate_spans, lines 196-207: the list appended to span_batch for a span
span_list(team_id, trace_id, span, host, pod) ==
  <<team_id, trace_id, span.span_id, Get(span, "parent_span_id", None),
    span.is_root, span.operation_name, span.service_name, span.span_kind,
    span.start_time, span.end_time, span.duration_ms, span.status,
    Get(span, "status_message", ""), Get(span, "http_method", ""),
    Get(span, "http_url", ""), Get(span, "http_status_code", 0),
    "host-" \o str(host), "pod-" \o span.service_name \o "-" \o str(pod),
    span.service_name, EmptyDict>>

\* `x if x else None` for a string or None, and for a number
StrOrNone(x) == IF x \in {"", None} THEN None ELSE x
IntOrNone(x) == IF x = 0 THEN <<>> ELSE <<x>>

\* row[k].isoformat() + "Z"
isoformat_Z(datetime) == <<"isoformat", datetime, "Z">>

\* _insert_logs_via_api, lines 139-153: the element of row each key is read from
log_entry_index ==
  [serviceName |-> 3, level |-> 2, message |-> 5, logger |-> 4, traceId |-> 6,
   spanId |-> 7, host |-> 8, pod |-> 9, container |-> 10, thread |-> 11,
   exception |-> 12, attributes |-> 13, timestamp |-> 1]

\* _insert_logs_via_api, lines 139-153: log_entry of a row
insert_logs_via_api_entry(row) ==
  [key \in DOMAIN log_entry_index |->
     LET x == At(row, log_entry_index[key])
     IN  CASE key \in {"traceId", "spanId"} -> StrOrNone(x)
           [] key = "timestamp" -> x * 1000
           [] OTHER -> x]

\* _insert_spans_via_api, lines 291-311: the element of row each key is read from
span_entry_index ==
  [traceId |-> 1, spanId |-> 2, parentSpanId |-> 3, isRoot |-> 4,
   operationName |-> 5, serviceName |-> 6, spanKind |-> 7, startTime |-> 8,
   endTime |-> 9, durationMs |-> 10, status |-> 11, statusMessage |-> 12,
   httpMethod |-> 13, httpUrl |-> 14, httpStatusCode |-> 15, host |-> 16,
   pod |-> 17, container |-> 18, attributes |-> 19]

\* _insert_spans_via_api, lines 291-311: span_entry of a row
insert_spans_via_api_entry(row) ==
  [key \in DOMAIN span_entry_index |->
     LET x == At(row, span_entry_index[key])
     IN  CASE key \in {"parentSpanId", "statusMessage", "httpMethod", "httpUrl"}
                -> StrOrNone(x)
           [] key = "httpStatusCode" -> IntOrNone(x)
           [] key = "isRoot" -> (x # 0)
           [] key \in {"startTime", "endTime"} -> isoformat_Z(x)
           [] OTHER -> x]

\* The log row built is given to _insert_logs_via_api: the rows the fallback
\* would insert and the payload that is posted
logs_payload ==
  /\ Len(built) = 1
  /\ built[1].fn = "generate_logs"
  /\ LET rws == <<log_list(built[1].row)>>
     IN  built' = Append(built,
                    [fn |-> "_insert_logs_via_api", rows |-> rws,
                     column_names |-> logs_column_names,
                     index |-> log_entry_index,
                     payload |-> [j \in 1..Len(rws) |->
                                    insert_logs_via_api_entry(rws[j])]])
  /\ UNCHANGED <<cfg, pc, gen, wr, orch, rel>>

\* The spans of the trace built are appended to span_batch (host-5, pod-..-3
\* drawn for each) and given to _insert_spans_via_api
spans_payload ==
  /\ Len(built) = 1
  /\ built[1].fn = "_generate_trace_spans"
  /\ LET b == built[1]
         rws == [j \in 1..Len(b.spans) |->
                   span_list(b.team_id, b.trace_id, b.spans[j], 5, 3)]
     IN  built' = Append(built,
                    [fn |-> "_insert_spans_via_api", rows |-> rws,
                     column_names |-> spans_column_names,
                     index |-> span_entry_index,
                     payload |-> [j \in 1..Len(rws) |->
                                    insert_spans_via_api_entry(rws[j])]])
  /\ UNCHANGED <<cfg, pc, gen, wr, orch, rel>>

\* The calls of the two _insert_*_via_api made
Payloads ==
  {x \in Range(built) : x.fn \in {"_insert_logs_via_api", "_insert_spans_via_api"}}

\* The places in a row, counted from 0, of the columns a JSON object of this
\* index carries
Carried(index) == {index[key] : key \in DOMAIN index}

\* ------------------------------------------------------------------ C21
\* C21 (as claimed): the JSON object posted for a log or span row has a value
\* for every column the direct insert writes for the row, team_id included.
C21_AsClaimed ==
  \A b \in Payloads :
    \A j \in 1..Len(b.rows) :
      /\ DOMAIN b.payload[j] = DOMAIN b.index
      /\ \A c \in 0..(Len(b.column_names) - 1) : c \in Carried(b.index)

\* --------------------------------------------------------------- SpecRows
NextRows ==
  \/ build_trace
  \/ build_log
  \/ build_incident
  \/ logs_payload
  \/ spans_payload

SpecRows == InitRows /\ [][NextRows]_vars
====
